---- MODULE Spec2Model ----
(***************************************************************************)
(* Money / AdvancedMoney (src/project_2.py, src/project.py).               *)
(*                                                                         *)
(* A decimal.Decimal is modelled by the rational number it denotes, a      *)
(* record [n, d] in lowest terms with d > 0.  The decimal context's 28     *)
(* significant digits are far beyond every value of the model, so the      *)
(* only roundings are the explicit quantize calls of the code.  Decimal's  *)
(* negative zero is the rational 0.                                        *)
(*                                                                         *)
(* Python values are tagged records: "Money" objects, "Decimal" numbers,   *)
(* "bool", "list", "tuple", "str", "none".  An operand that is the very    *)
(* object held by a variable is passed as a reference [tag |-> "ref"], so  *)
(* that object identity (the default == of a class that defines no         *)
(* __eq__) is distinguished from equality of amounts.                      *)
(***************************************************************************)
EXTENDS Integers, Sequences, FiniteSets, TLC

VARIABLES m, out

vars == <<m, out>>

(* ---------------------------------------------------------------- bounds *)
\* construction inputs are k/1000 for k in -MaxInput..MaxInput
MaxInput == 26
\* a returned Money is bound to m only while |amount| <= MaxBind cents
MaxBind == 6
\* split is called with ways in -1..MaxWays
MaxWays == 3
\* ratio lists have at most MaxRatios weights
MaxRatios == 3
\* compound_interest / present_value periods are in 0..MaxPeriods
MaxPeriods == 2

(* ------------------------------------------------------ exact arithmetic *)
Abs(x) == IF x < 0 THEN -x ELSE x

Sign(x) == IF x < 0 THEN -1 ELSE IF x > 0 THEN 1 ELSE 0

RECURSIVE GCD(_, _)
GCD(a, b) == IF b = 0 THEN a ELSE GCD(b, a % b)

RECURSIVE Pow10(_)
Pow10(k) == IF k = 0 THEN 1 ELSE 10 * Pow10(k - 1)

\* the Decimal of value n/d
Dec(n, d) ==
    LET g == GCD(Abs(n), Abs(d))
        s == Sign(d)
    IN  [n |-> s * (n \div g), d |-> Abs(d) \div g]

DInt(k) == [n |-> k, d |-> 1]

DAdd(x, y) == Dec(x.n * y.d + y.n * x.d, x.d * y.d)

DNeg(x) == [n |-> -x.n, d |-> x.d]

DSub(x, y) == DAdd(x, DNeg(y))

DMul(x, y) == Dec(x.n * y.n, x.d * y.d)

\* Decimal.__truediv__, divisor not zero
DDiv(x, y) == Dec(x.n * y.d, x.d * y.n)

DAbs(x) == [n |-> Abs(x.n), d |-> x.d]

DLt(x, y) == x.n * y.d < y.n * x.d

DIsZero(x) == x.n = 0

\* int(Decimal): truncation toward zero
DTrunc(x) == Sign(x.n) * (Abs(x.n) \div x.d)

\* Decimal.__floordiv__ : the integer part of the quotient, truncated toward
\* zero (not floored); divisor not zero
DFloorDiv(x, y) == DInt(DTrunc(DDiv(x, y)))

\* Decimal.__mod__ : the remainder takes the sign of the dividend
DMod(x, y) == DSub(x, DMul(y, DFloorDiv(x, y)))

RECURSIVE DPow(_, _)
DPow(x, k) == IF k = 0 THEN DInt(1) ELSE DMul(x, DPow(x, k - 1))

\* the three rounding modes of decimal used by the code, on num/den, den > 0
ROUND_HALF_UP(num, den) == Sign(num) * ((2 * Abs(num) + den) \div (2 * den))

ROUND_DOWN(num, den) == Sign(num) * (Abs(num) \div den)

ROUND_HALF_EVEN(num, den) ==
    LET a == Abs(num)
        f == a \div den
        r2 == 2 * (a % den)
    IN  Sign(num) * (IF r2 > den \/ (r2 = den /\ f % 2 = 1) THEN f + 1 ELSE f)

\* x.quantize(Decimal('0.0..1'), rounding=mode) with `places` fractional digits
Quantize(x, places, mode) ==
    LET num == x.n * Pow10(places)
        k == CASE mode = "ROUND_HALF_UP" -> ROUND_HALF_UP(num, x.d)
               [] mode = "ROUND_DOWN" -> ROUND_DOWN(num, x.d)
               [] OTHER -> ROUND_HALF_EVEN(num, x.d)
    IN  Dec(k, Pow10(places))

(* ------------------------------------------------------- python values *)
None == [tag |-> "none"]

Bool(b) == [tag |-> "bool", b |-> b]

Number(x) == [tag |-> "Decimal", v |-> x]

List(s) == [tag |-> "list", items |-> s]

Tuple(s) == [tag |-> "tuple", items |-> s]

Str == [tag |-> "str"]

Ref(r) == [tag |-> "ref", ref |-> r]

\* the outcome of a call: a returned value, or a raised exception
Return(v) == [exc |-> "none", val |-> v]

Raise(e) == [exc |-> e, val |-> None]

(* ------------------------------------------------------------ registry *)
VALID_CURRENCIES ==
    [c \in {"USD", "EUR"} |-> [decimals |-> 2]]

(* --------------------------------------------------------------- Money *)
Money__init__NoQuantize(cls, amount, currency) ==
    IF currency \notin DOMAIN VALID_CURRENCIES
    THEN Raise("InvalidCurrencyError")
    ELSE Return([tag |-> "Money", cls |-> cls, amount |-> amount,
                 currency |-> currency])

Money__init__HalfEven(cls, amount, currency) ==
    IF currency \notin DOMAIN VALID_CURRENCIES
    THEN Raise("InvalidCurrencyError")
    ELSE LET decimal_places == VALID_CURRENCIES[currency].decimals
         IN  Return([tag |-> "Money", cls |-> cls,
                     amount |-> IF decimal_places > 0
                                THEN Quantize(amount, decimal_places, "ROUND_HALF_EVEN")
                                ELSE amount,
                     currency |-> currency])

\* cls(amount, currency): `amount` is Decimal(str(amount)) of the argument
Money__init__(cls, amount, currency) ==
    IF currency \notin DOMAIN VALID_CURRENCIES
    THEN Raise("InvalidCurrencyError")
    ELSE LET decimal_places == VALID_CURRENCIES[currency].decimals
         IN  Return([tag |-> "Money", cls |-> cls,
                     amount |-> IF decimal_places > 0
                                THEN Quantize(amount, decimal_places, "ROUND_HALF_UP")
                                ELSE amount,
                     currency |-> currency])

\* Money(amount, currency) where the code passes a currency taken from an
\* existing Money: the object constructed
Money(amount, currency) == Money__init__("Money", amount, currency).val

IsMoney(v) == v.tag = "Money"

\* Decimal(str(other)) for an operand that is not a Money: a number converts,
\* any other text raises decimal.InvalidOperation (ConversionSyntax)
DecimalOfStr(other) ==
    IF other.tag = "Decimal" THEN Return(other.v) ELSE Raise("InvalidOperation")

\* what Decimal raises for x / y and x // y when y = 0
DivisionError(x) == IF DIsZero(x) THEN "InvalidOperation" ELSE "DivisionByZero"

Money__add__NoCheck(self, other) ==
    IF IsMoney(other)
    THEN Return(Money(DAdd(self.amount, other.amount), self.currency))
    ELSE LET d == DecimalOfStr(other)
         IN  IF d.exc # "none" THEN d
             ELSE Return(Money(DAdd(self.amount, d.val), self.currency))

Money__add__(self, other) ==
    IF IsMoney(other)
    THEN IF self.currency # other.currency
         THEN Raise("IncompatibleCurrencyError")
         ELSE Return(Money(DAdd(self.amount, other.amount), self.currency))
    ELSE LET d == DecimalOfStr(other)
         IN  IF d.exc # "none" THEN d
             ELSE Return(Money(DAdd(self.amount, d.val), self.currency))

Money__radd__(self, other) == Money__add__(self, other)

Money__sub__(self, other) ==
    IF IsMoney(other)
    THEN IF self.currency # other.currency
         THEN Raise("IncompatibleCurrencyError")
         ELSE Return(Money(DSub(self.amount, other.amount), self.currency))
    ELSE LET d == DecimalOfStr(other)
         IN  IF d.exc # "none" THEN d
             ELSE Return(Money(DSub(self.amount, d.val), self.currency))

\* other - self, reached through the operator only when other is not a Money
Money__rsub__(self, other) ==
    LET d == DecimalOfStr(other)
    IN  IF d.exc # "none" THEN d
        ELSE Return(Money(DSub(d.val, self.amount), self.currency))

Money__mul__(self, other) ==
    IF IsMoney(other)
    THEN Raise("TypeError")
    ELSE LET d == DecimalOfStr(other)
         IN  IF d.exc # "none" THEN d
             ELSE Return(Money(DMul(self.amount, d.val), self.currency))

Money__rmul__(self, other) == Money__mul__(self, other)

Money__truediv__(self, other) ==
    IF IsMoney(other)
    THEN IF self.currency # other.currency
         THEN Raise("IncompatibleCurrencyError")
         ELSE IF DIsZero(other.amount)
              THEN Raise(DivisionError(self.amount))
              ELSE Return(Number(DDiv(self.amount, other.amount)))
    ELSE LET d == DecimalOfStr(other)
         IN  IF d.exc # "none" THEN d
             ELSE IF DIsZero(d.val)
                  THEN Raise(DivisionError(self.amount))
                  ELSE Return(Money(DDiv(self.amount, d.val), self.currency))

Money__floordiv__(self, other) ==
    IF IsMoney(other)
    THEN IF self.currency # other.currency
         THEN Raise("IncompatibleCurrencyError")
         ELSE IF DIsZero(other.amount)
              THEN Raise(DivisionError(self.amount))
              ELSE Return(Number(DFloorDiv(self.amount, other.amount)))
    ELSE LET d == DecimalOfStr(other)
         IN  IF d.exc # "none" THEN d
             ELSE IF DIsZero(d.val)
                  THEN Raise(DivisionError(self.amount))
                  ELSE Return(Money(DFloorDiv(self.amount, d.val), self.currency))

Money__mod__(self, other) ==
    IF IsMoney(other)
    THEN IF self.currency # other.currency
         THEN Raise("IncompatibleCurrencyError")
         ELSE IF DIsZero(other.amount)
              THEN Raise("InvalidOperation")
              ELSE Return(Money(DMod(self.amount, other.amount), self.currency))
    ELSE LET d == DecimalOfStr(other)
         IN  IF d.exc # "none" THEN d
             ELSE IF DIsZero(d.val)
                  THEN Raise("InvalidOperation")
                  ELSE Return(Money(DMod(self.amount, d.val), self.currency))

Money__neg__(self) == Return(Money(DNeg(self.amount), self.currency))

Money__abs__(self) == Return(Money(DAbs(self.amount), self.currency))

Money__lt__(self, other) ==
    IF ~IsMoney(other) THEN Raise("TypeError")
    ELSE IF self.currency # other.currency THEN Raise("IncompatibleCurrencyError")
    ELSE Return(Bool(DLt(self.amount, other.amount)))

Money__gt__(self, other) ==
    IF ~IsMoney(other) THEN Raise("TypeError")
    ELSE IF self.currency # other.currency THEN Raise("IncompatibleCurrencyError")
    ELSE Return(Bool(DLt(other.amount, self.amount)))

\* self == other. The class defines no __eq__, so this is object.__eq__:
\* true exactly when other is the same object (`same`), whatever it holds.
Money__eq__(self, other, same) == Return(Bool(same))

\* self < other or self == other
Money__le__(self, other, same) ==
    LET lt == Money__lt__(self, other)
    IN  IF lt.exc # "none" THEN lt
        ELSE IF lt.val.b THEN lt
        ELSE Money__eq__(self, other, same)

\* self > other or self == other
Money__ge__(self, other, same) ==
    LET gt == Money__gt__(self, other)
    IN  IF gt.exc # "none" THEN gt
        ELSE IF gt.val.b THEN gt
        ELSE Money__eq__(self, other, same)

(* ------------------------------------------------------- AdvancedMoney *)
\* for i in range(remainder_cents): amounts[i] += Money(Decimal('0.01'), currency)
\* (i counts the iterations done; amounts[i] of the code is amounts[i + 1] here)
RECURSIVE SplitLoop(_, _, _, _)
SplitLoop(amounts, i, remainder_cents, currency) ==
    IF i >= remainder_cents THEN Return(List(amounts))
    ELSE IF i + 1 > Len(amounts) THEN Raise("IndexError")
    ELSE SplitLoop([amounts EXCEPT ![i + 1] =
                        Money__add__(@, Money(Dec(1, 100), currency)).val],
                   i + 1, remainder_cents, currency)

AdvancedMoney_split(self, ways) ==
    IF ways <= 0 THEN Raise("ValueError")
    ELSE LET quotient == DFloorDiv(self.amount, DInt(ways))
             remainder == DMod(self.amount, DInt(ways))
             amounts == [i \in 1..ways |-> Money(quotient, self.currency)]
             remainder_cents ==
                 DTrunc(DMul(remainder,
                             DInt(Pow10(VALID_CURRENCIES[self.currency].decimals))))
         IN  SplitLoop(amounts, 0, remainder_cents, self.currency)

RECURSIVE SumInts(_)
SumInts(s) == IF s = <<>> THEN 0 ELSE Head(s) + SumInts(Tail(s))

\* the loop without the remainder branch: the last share is computed like the others
RECURSIVE AllocateLoopNoRemainder(_, _, _, _, _, _)
AllocateLoopNoRemainder(self, ratios, total_ratio, i, allocated, remaining) ==
    IF i > Len(ratios) THEN Return(List(allocated))
    ELSE IF total_ratio = 0
    THEN Raise(DivisionError(DMul(self.amount, DInt(ratios[i]))))
    ELSE LET amount == Quantize(DDiv(DMul(self.amount, DInt(ratios[i])),
                                     DInt(total_ratio)), 2, "ROUND_DOWN")
         IN  AllocateLoopNoRemainder(self, ratios, total_ratio, i + 1,
                          Append(allocated, Money(amount, self.currency)),
                          DSub(remaining, amount))

AdvancedMoney_allocateNoRemainder(self, ratios) ==
    IF ratios = <<>> \/ \A i \in 1..Len(ratios) : ratios[i] <= 0
    THEN Raise("ValueError")
    ELSE AllocateLoopNoRemainder(self, ratios, SumInts(ratios), 1, <<>>, self.amount)

\* for i, ratio in enumerate(ratios): ... (i is 1-based here)
RECURSIVE AllocateLoop(_, _, _, _, _, _)
AllocateLoop(self, ratios, total_ratio, i, allocated, remaining) ==
    IF i > Len(ratios) THEN Return(List(allocated))
    ELSE IF i = Len(ratios)
    THEN AllocateLoop(self, ratios, total_ratio, i + 1,
                      Append(allocated, Money(remaining, self.currency)), remaining)
    ELSE IF total_ratio = 0
    THEN Raise(DivisionError(DMul(self.amount, DInt(ratios[i]))))
    ELSE LET amount == Quantize(DDiv(DMul(self.amount, DInt(ratios[i])),
                                     DInt(total_ratio)), 2, "ROUND_DOWN")
         IN  AllocateLoop(self, ratios, total_ratio, i + 1,
                          Append(allocated, Money(amount, self.currency)),
                          DSub(remaining, amount))

AdvancedMoney_allocate(self, ratios) ==
    IF ratios = <<>> \/ \A i \in 1..Len(ratios) : ratios[i] <= 0
    THEN Raise("ValueError")
    ELSE AllocateLoop(self, ratios, SumInts(ratios), 1, <<>>, self.amount)

AdvancedMoney_compound_interest(self, rate, periods) ==
    IF periods <= 0 THEN Return(Money(DInt(0), self.currency))
    ELSE LET final_amount == DMul(self.amount, DPow(DAdd(DInt(1), rate), periods))
         IN  Return(Money(DSub(final_amount, self.amount), self.currency))

AdvancedMoney_present_value(self, rate, periods) ==
    IF periods <= 0 THEN Return(Money(self.amount, self.currency))
    ELSE LET growth == DPow(DAdd(DInt(1), rate), periods)
         IN  IF DIsZero(growth) THEN Raise(DivisionError(self.amount))
             ELSE Return(Money(DDiv(self.amount, growth), self.currency))

AdvancedMoney_percentage_of(self, total) ==
    IF ~IsMoney(total) \/ total.currency # self.currency
    THEN Raise("IncompatibleCurrencyError")
    ELSE IF DIsZero(total.amount) THEN Return(Number(DInt(0)))
    ELSE Return(Number(Quantize(DMul(DDiv(self.amount, total.amount), DInt(100)),
                                2, "ROUND_HALF_EVEN")))

\* result = money_list[0]; for money in money_list[1:]: result += money
RECURSIVE SumLoop(_, _)
SumLoop(result, rest) ==
    IF rest = <<>> THEN Return(result)
    ELSE LET r == Money__add__(result, Head(rest))
         IN  IF r.exc # "none" THEN r ELSE SumLoop(r.val, Tail(rest))

AdvancedMoney_sum(money_list) ==
    IF money_list = <<>> THEN Return(None)
    ELSE SumLoop(Head(money_list), Tail(money_list))

\* the builtin max: keeps the first item, replaced by an item that is > it
RECURSIVE MaxLoop(_, _)
MaxLoop(best, rest) ==
    IF rest = <<>> THEN Return(best)
    ELSE LET c == Money__gt__(Head(rest), best)
         IN  IF c.exc # "none" THEN c
             ELSE MaxLoop(IF c.val.b THEN Head(rest) ELSE best, Tail(rest))

AdvancedMoney_max(money_list) ==
    IF money_list = <<>> THEN Return(None)
    ELSE MaxLoop(Head(money_list), Tail(money_list))

\* the builtin min: keeps the first item, replaced by an item that is < it
RECURSIVE MinLoop(_, _)
MinLoop(best, rest) ==
    IF rest = <<>> THEN Return(best)
    ELSE LET c == Money__lt__(Head(rest), best)
         IN  IF c.exc # "none" THEN c
             ELSE MinLoop(IF c.val.b THEN Head(rest) ELSE best, Tail(rest))

AdvancedMoney_min(money_list) ==
    IF money_list = <<>> THEN Return(None)
    ELSE MinLoop(Head(money_list), Tail(money_list))

AdvancedMoney_apply_discount(self, discount_rate) ==
    LET discount_amount == Money__mul__(self, discount_rate)
    IN  IF discount_amount.exc # "none" THEN discount_amount
        ELSE LET discounted == Money__sub__(self, discount_amount.val)
             IN  IF discounted.exc # "none" THEN discounted
                 ELSE Return(Tuple(<<discounted.val, discount_amount.val>>))

(* ------------------------------------------------------ callers' inputs *)
\* the amounts a caller constructs from: every k/1000 within the bound, and
\* amounts above one currency unit, among them the demo's 127.83 and 19.995
Inputs ==
    {Dec(k, 1000) : k \in -MaxInput..MaxInput}
        \cup {Dec(302, 100), Dec(12783, 100), Dec(19995, 1000), Dec(-19995, 1000)}

Classes == {"Money", "AdvancedMoney"}

\* "GBP" is not in the registry
CurrencyCodes == {"USD", "EUR", "GBP"}

\* operands written in place by the caller: Money(x, c) objects of their own
MoneyLiterals ==
    {Money(Dec(k, 100), c) : k \in {-2, 0, 3}, c \in DOMAIN VALID_CURRENCIES}

Numbers == {Number(x) : x \in {DInt(-2), DInt(0), DInt(3), Dec(1, 2)}}

Rates == {DInt(-1), DInt(0), Dec(1, 2)}

RECURSIVE SeqsUpTo(_, _)
SeqsUpTo(S, k) ==
    IF k = 0 THEN {<<>>}
    ELSE LET shorter == SeqsUpTo(S, k - 1)
         IN  shorter \cup {Append(q, x) : q \in shorter, x \in S}

\* weights: positive ones, and a negative one that can cancel a positive one
RatioLists == SeqsUpTo({-1, 1, 2}, MaxRatios)

(* ----------------------------------------------------------------- state *)
\* m   : the object bound to the caller's variable
\* out : the last call: its name, receiver, argument and outcome
Start ==
    [op |-> "start", recv |-> "none", self |-> None, arg |-> None, other |-> None,
     exc |-> "none", val |-> None]

\* m = cls(x, currency): the caller's variable holds the object constructed, or
\* nothing when construction raised
Construct(cls, x, currency) ==
    LET res == Money__init__(cls, x, currency)
    IN  /\ m = res.val
        /\ out = [Start EXCEPT !.op = "construct",
                               !.arg = [tag |-> "input", x |-> x, currency |-> currency],
                               !.exc = res.exc, !.val = res.val]

Init == \E cls \in Classes, x \in Inputs, c \in CurrencyCodes : Construct(cls, x, c)

\* the object a receiver or a reference operand denotes: the caller's variable,
\* or the value the previous call returned
Deref(r) == IF r = "m" THEN m ELSE out.val

Operand(o) == IF o.tag = "ref" THEN Deref(o.ref) ELSE o

\* `other is self`
Same(r, o) == o.tag = "ref" /\ o.ref = r

WithinBind(v) == IsMoney(v) /\ Abs(v.amount.n) * 100 <= MaxBind * v.amount.d

MoneyArgs == (IF IsMoney(m) THEN {Ref("m")} ELSE {}) \cup MoneyLiterals

\* arithmetic is called with a Money or a plain number
ArithOperands == MoneyArgs \cup Numbers

\* comparisons and percentage_of are also called with a value that is neither
Operands == ArithOperands \cup {Str}

\* the lists passed to sum, max and min
MoneyLists ==
    SeqsUpTo((IF IsMoney(m) THEN {Ref("m")} ELSE {})
                 \cup {Money(Dec(3, 100), c) : c \in DOMAIN VALID_CURRENCIES}, 2)

Call(op, r, arg, other, res) ==
    /\ out' = [op |-> op, recv |-> r, self |-> IF r = "none" THEN None ELSE Deref(r),
               arg |-> arg, other |-> other, exc |-> res.exc, val |-> res.val]
    /\ UNCHANGED m

IsAdvanced(r) == IsMoney(Deref(r)) /\ Deref(r).cls = "AdvancedMoney"

(* --------------------------------------------------------------- actions *)
\* m = <a Money the last call returned>
Bind ==
    /\ out.exc = "none"
    /\ \E v \in (CASE out.val.tag = "Money" -> {out.val}
                   [] out.val.tag \in {"list", "tuple"} ->
                          {out.val.items[i] : i \in 1..Len(out.val.items)}
                   [] OTHER -> {}) :
          /\ WithinBind(v)
          /\ m' = v
    /\ out' = [Start EXCEPT !.op = "bind"]

Add(r, o) ==
    IsMoney(Deref(r)) /\ Call("add", r, o, Operand(o), Money__add__(Deref(r), Operand(o)))

RAdd(r, o) ==
    IsMoney(Deref(r)) /\ Call("radd", r, o, Operand(o), Money__radd__(Deref(r), Operand(o)))

Sub(r, o) ==
    IsMoney(Deref(r)) /\ Call("sub", r, o, Operand(o), Money__sub__(Deref(r), Operand(o)))

RSub(r, o) ==
    IsMoney(Deref(r)) /\ Call("rsub", r, o, Operand(o), Money__rsub__(Deref(r), Operand(o)))

Mul(r, o) ==
    IsMoney(Deref(r)) /\ Call("mul", r, o, Operand(o), Money__mul__(Deref(r), Operand(o)))

RMul(r, o) ==
    IsMoney(Deref(r)) /\ Call("rmul", r, o, Operand(o), Money__rmul__(Deref(r), Operand(o)))

TrueDiv(r, o) ==
    IsMoney(Deref(r))
        /\ Call("truediv", r, o, Operand(o), Money__truediv__(Deref(r), Operand(o)))

FloorDiv(r, o) ==
    IsMoney(Deref(r))
        /\ Call("floordiv", r, o, Operand(o), Money__floordiv__(Deref(r), Operand(o)))

Mod(r, o) ==
    IsMoney(Deref(r)) /\ Call("mod", r, o, Operand(o), Money__mod__(Deref(r), Operand(o)))

Neg(r) == IsMoney(Deref(r)) /\ Call("neg", r, None, None, Money__neg__(Deref(r)))

AbsOf(r) == IsMoney(Deref(r)) /\ Call("abs", r, None, None, Money__abs__(Deref(r)))

Lt(r, o) ==
    IsMoney(Deref(r)) /\ Call("lt", r, o, Operand(o), Money__lt__(Deref(r), Operand(o)))

Gt(r, o) ==
    IsMoney(Deref(r)) /\ Call("gt", r, o, Operand(o), Money__gt__(Deref(r), Operand(o)))

Le(r, o) ==
    IsMoney(Deref(r))
        /\ Call("le", r, o, Operand(o), Money__le__(Deref(r), Operand(o), Same(r, o)))

Ge(r, o) ==
    IsMoney(Deref(r))
        /\ Call("ge", r, o, Operand(o), Money__ge__(Deref(r), Operand(o), Same(r, o)))

Eq(r, o) ==
    IsMoney(Deref(r))
        /\ Call("eq", r, o, Operand(o), Money__eq__(Deref(r), Operand(o), Same(r, o)))

Split(r, ways) ==
    IsAdvanced(r)
        /\ Call("split", r, [tag |-> "int", k |-> ways], None,
                AdvancedMoney_split(Deref(r), ways))

Allocate(r, ratios) ==
    IsAdvanced(r)
        /\ Call("allocate", r, [tag |-> "ratios", items |-> ratios], None,
                AdvancedMoney_allocate(Deref(r), ratios))

CompoundInterest(r, rate, periods) ==
    IsAdvanced(r)
        /\ Call("compound_interest", r,
                [tag |-> "rate", rate |-> rate, periods |-> periods], None,
                AdvancedMoney_compound_interest(Deref(r), rate, periods))

PresentValue(r, rate, periods) ==
    IsAdvanced(r)
        /\ Call("present_value", r,
                [tag |-> "rate", rate |-> rate, periods |-> periods], None,
                AdvancedMoney_present_value(Deref(r), rate, periods))

PercentageOf(r, o) ==
    IsAdvanced(r)
        /\ Call("percentage_of", r, o, Operand(o),
                AdvancedMoney_percentage_of(Deref(r), Operand(o)))

ApplyDiscount(r, rate) ==
    IsAdvanced(r)
        /\ Call("apply_discount", r, Number(rate), Number(rate),
                AdvancedMoney_apply_discount(Deref(r), Number(rate)))

Objects(l) == [i \in 1..Len(l) |-> Operand(l[i])]

Sum(l) == Call("sum", "none", List(l), List(Objects(l)), AdvancedMoney_sum(Objects(l)))

Max(l) == Call("max", "none", List(l), List(Objects(l)), AdvancedMoney_max(Objects(l)))

Min(l) == Call("min", "none", List(l), List(Objects(l)), AdvancedMoney_min(Objects(l)))

Next ==
    \/ Bind
    \/ \E o \in ArithOperands : Add("m", o)
    \/ \E o \in Numbers : RAdd("m", o)
    \/ \E o \in ArithOperands : Sub("m", o)
    \/ \E o \in Numbers : RSub("m", o)
    \/ \E o \in ArithOperands : Mul("m", o)
    \/ \E o \in Numbers : RMul("m", o)
    \/ \E o \in ArithOperands : TrueDiv("m", o)
    \/ \E o \in ArithOperands : FloorDiv("m", o)
    \/ \E o \in ArithOperands : Mod("m", o)
    \/ Neg("m")
    \/ AbsOf("m")
    \/ \E o \in Operands : Lt("m", o)
    \/ \E o \in Operands : Le("m", o)
    \/ \E o \in Operands : Gt("m", o)
    \/ \E o \in Operands : Ge("m", o)
    \/ \E o \in Operands : Eq("m", o)
    \/ \E ways \in -1..MaxWays : Split("m", ways)
    \/ \E ratios \in RatioLists : Allocate("m", ratios)
    \/ \E rate \in Rates, periods \in 0..MaxPeriods : CompoundInterest("m", rate, periods)
    \/ \E rate \in Rates, periods \in 0..MaxPeriods : PresentValue("m", rate, periods)
    \/ \E o \in Operands : PercentageOf("m", o)
    \/ \E rate \in Rates : ApplyDiscount("m", rate)
    \/ \E l \in MoneyLists : Sum(l)
    \/ \E l \in MoneyLists : Max(l)
    \/ \E l \in MoneyLists : Min(l)

Spec == Init /\ [][Next]_vars

(* The expression (a + b) - b == a, a the caller's variable and b a Money,   *)
(* evaluated call by call: each call's receiver is the object the previous  *)
(* call returned.                                                           *)
EvalAdd == out.op = "construct" /\ \E o \in MoneyArgs : Add("m", o)

EvalSub == out.op = "add" /\ out.exc = "none" /\ Sub("ret", out.arg)

EvalEq == out.op = "sub" /\ out.recv = "ret" /\ out.exc = "none" /\ Eq("ret", Ref("m"))

NextRoundTrip == EvalAdd \/ EvalSub \/ EvalEq

SpecRoundTrip == Init /\ [][NextRoundTrip]_vars

(* ------------------------------------------------------------ properties *)
RECURSIVE SumAmounts(_)
SumAmounts(items) ==
    IF items = <<>> THEN DInt(0)
    ELSE DAdd(Head(items).amount, SumAmounts(Tail(items)))

\* v is a Money of a registered currency whose amount is a whole number of
\* minor units
WellFormed(v) ==
    /\ IsMoney(v)
    /\ v.currency \in DOMAIN VALID_CURRENCIES
    /\ Pow10(VALID_CURRENCIES[v.currency].decimals) % v.amount.d = 0

\* the Money objects inside a value
MoneysIn(v) ==
    CASE v.tag = "Money" -> {v}
      [] v.tag \in {"list", "tuple"} ->
             {v.items[i] : i \in {j \in 1..Len(v.items) : IsMoney(v.items[j])}}
      [] OTHER -> {}

AllPositive(ratios) == ratios # <<>> /\ \A i \in 1..Len(ratios) : ratios[i] > 0

DocumentedFailures ==
    {"InvalidCurrencyError", "IncompatibleCurrencyError", "ValueError", "TypeError"}

Comparisons == {"lt", "le", "gt", "ge", "eq"}

\* C1: for every Money m and n > 0, split(m, n) returns Money of m's currency
\* whose amounts sum to exactly m.amount.
C1_SplitConserves ==
    (out.op = "split" /\ out.arg.k > 0) =>
        /\ out.exc = "none"
        /\ \A i \in 1..Len(out.val.items) :
               IsMoney(out.val.items[i]) /\ out.val.items[i].currency = m.currency
        /\ SumAmounts(out.val.items) = m.amount

\* C2: for every Money m and every list of positive weights, allocate returns
\* len(ratios) Money of m's currency whose amounts sum to exactly m.amount, the
\* last being m.amount minus the earlier shares.
C2_AllocateConserves ==
    (out.op = "allocate" /\ AllPositive(out.arg.items)) =>
        /\ out.exc = "none"
        /\ out.val.tag = "list"
        /\ Len(out.val.items) = Len(out.arg.items)
        /\ \A i \in 1..Len(out.val.items) :
               WellFormed(out.val.items[i]) /\ out.val.items[i].currency = m.currency
        /\ SumAmounts(out.val.items) = m.amount
        /\ out.val.items[Len(out.val.items)].amount =
               DSub(m.amount, SumAmounts(SubSeq(out.val.items, 1, Len(out.val.items) - 1)))

\* an allocation into three shares where truncation left a residue for the last
C2_Witness ==
    /\ out.op = "allocate" /\ AllPositive(out.arg.items) /\ Len(out.arg.items) = 3
    /\ out.exc = "none"
    /\ ~DIsZero(m.amount)
    /\ out.val.items[3].amount #
           DDiv(DMul(m.amount, DInt(out.arg.items[3])), DInt(SumInts(out.arg.items)))

\* C3: add, subtract, divide, floor_divide, modulo and percentage_of between two
\* Money of different currencies raise IncompatibleCurrencyError and return
\* nothing.
C3_MixedCurrencyFails ==
    (/\ out.op \in {"add", "sub", "truediv", "floordiv", "mod", "percentage_of"}
     /\ IsMoney(out.other)
     /\ out.other.currency # out.self.currency) =>
        out.exc = "IncompatibleCurrencyError" /\ out.val.tag = "none"

C3_Witness ==
    /\ out.op = "add" /\ IsMoney(out.other)
    /\ out.other.currency # out.self.currency
    /\ ~DIsZero(out.other.amount) /\ ~DIsZero(out.self.amount)
    /\ out.exc = "IncompatibleCurrencyError"

\* C4: each of <, <=, >, >=, == returns a boolean only between two Money of
\* the same currency; with a non-Money operand it raises TypeError, with a
\* Money of another currency IncompatibleCurrencyError.
C4_ComparisonsChecked ==
    (out.op \in Comparisons) =>
        /\ ~IsMoney(out.other) => out.exc = "TypeError"
        /\ (IsMoney(out.other) /\ out.other.currency # out.self.currency) =>
               out.exc = "IncompatibleCurrencyError"
        /\ (IsMoney(out.other) /\ out.other.currency = out.self.currency) =>
               out.exc = "none" /\ out.val.tag = "bool"

\* C5: construction in a 2-decimal currency stores the multiple of the minor
\* unit nearest to the input, a tie going away from zero.
C5_RoundHalfUp ==
    (out.op = "construct" /\ out.exc = "none") =>
        LET x == out.arg.x
            diff == DAbs(DSub(m.amount, x))
        IN  /\ 100 % m.amount.d = 0
            /\ ~DLt(Dec(1, 200), diff)
            /\ diff = Dec(1, 200) => DLt(DAbs(x), DAbs(m.amount))

\* -19.995 constructed as -20.00
C5_Witness ==
    /\ out.op = "construct" /\ out.exc = "none"
    /\ out.arg.x = Dec(-19995, 1000)
    /\ m.amount = DInt(-20)

\* C6: every Money that exists (the caller's, the receiver and operand of the
\* last call, and whatever it returned) has a registered currency and an amount
\* that is a whole number of minor units.
C6_MoneyWellFormed ==
    \A v \in MoneysIn(m) \cup MoneysIn(out.self) \cup MoneysIn(out.other)
                \cup MoneysIn(out.val) : WellFormed(v)

\* a division of a plain Money by a number whose exact quotient is not a whole
\* number of cents
C6_Witness ==
    /\ out.op = "truediv" /\ out.exc = "none" /\ out.other.tag = "Decimal"
    /\ m.cls = "Money"
    /\ IsMoney(out.val)
    /\ out.val.amount # DDiv(out.self.amount, out.other.v)

\* C7: for n > 0, split(m, n) returns n shares, the first remainder_count equal
\* to the base share plus one minor unit and the rest equal to the base share.
C7_SplitShares ==
    (out.op = "split" /\ out.arg.k > 0) =>
        /\ out.exc = "none"
        /\ Len(out.val.items) = out.arg.k
        /\ \E count \in 0..(out.arg.k - 1) :
               LET base == out.val.items[out.arg.k].amount
               IN  \A i \in 1..out.arg.k :
                       out.val.items[i].amount =
                           IF i <= count THEN DAdd(base, Dec(1, 100)) ELSE base

\* C8: for Money a and b of one currency, (a + b) - b has a's currency and
\* amount, and (a + b) - b == a is true.
C8_RoundTripEqual ==
    /\ (out.op = "sub" /\ out.recv = "ret") =>
           /\ out.exc = "none"
           /\ out.val.currency = m.currency /\ out.val.amount = m.amount
    /\ (out.op = "eq" /\ out.recv = "ret") =>
           out.exc = "none" /\ out.val = Bool(TRUE)

\* C9: every failure is one of the documented kinds, and split with n > 0,
\* allocate with a list that is neither empty nor all non-positive, and
\* division, floor division and modulo by zero raise nothing else.
C9_OnlyDocumentedFailures ==
    /\ out.exc \in DocumentedFailures \cup {"none"}
    /\ (out.op = "split" /\ out.arg.k > 0) => out.exc = "none"
    /\ (/\ out.op = "allocate" /\ out.arg.items # <<>>
        /\ \E i \in 1..Len(out.arg.items) : out.arg.items[i] > 0) => out.exc = "none"

\* C10: for Money a and b of one currency, a <= b is true exactly when
\* a.amount <= b.amount, and a >= b exactly when a.amount >= b.amount.
C10_LeGeByAmount ==
    (/\ out.op \in {"le", "ge"} /\ IsMoney(out.other)
     /\ out.other.currency = out.self.currency) =>
        /\ out.exc = "none"
        /\ out.op = "le" => (out.val.b <=> ~DLt(out.other.amount, out.self.amount))
        /\ out.op = "ge" => (out.val.b <=> ~DLt(out.self.amount, out.other.amount))

====
